---- MODULE Spec2Model ----
(***************************************************************************)
(* Recurring-appointment scheduling engine of counseling-server.js:        *)
(* the weekly instance generator (genWeeklyInstances), the exception       *)
(* overlay and merge of GET /api/schedule/week, and the handlers that      *)
(* write the appointment, series and exception tables.                     *)
(*                                                                         *)
(* Time is epoch milliseconds, as in the source.  Date's local-time        *)
(* methods are modelled for a process whose time zone is UTC (the source   *)
(* does no time-zone or DST reasoning): 1970-01-01 is a Thursday.          *)
(* A nullable column or an optional request field is <<>> (NULL,           *)
(* undefined) or <<v>>.                                                    *)
(***************************************************************************)
EXTENDS Integers, Sequences, FiniteSets, TLC

VARIABLES
  appointments,          \* table appointments, in rowid order
  recurring_series,      \* table recurring_series, in rowid order
  recurring_exceptions,  \* table recurring_exceptions, in rowid order
  files,                 \* table files, in rowid order
  edits,                 \* number of edits applied to the tables so far
  eventList,             \* event list, when the last response is one of the week query
  weekQuery,             \* <<weekStart, weekEnd>> of that request, or <<>>
  icsDoc,                \* lines of the document, when the last response is an ICS export
  response,              \* the last response sent: its endpoint and status code
  inFlight,              \* the requests received and not yet answered, one per endpoint
  genSeries,             \* series row handed to genWeeklyInstances
  genWindow,             \* <<weekStart, weekEnd>> of the generator call, or <<>>
  generated              \* list returned by the generator call

vars == <<appointments, recurring_series, recurring_exceptions, files, edits, eventList,
          weekQuery, icsDoc, response, inFlight, genSeries, genWindow, generated>>

storeVars == <<appointments, recurring_series, recurring_exceptions, files>>
genVars == <<genSeries, genWindow, generated>>

----------------------------------------------------------------------------
(* Bounds of the model *)

\* last day (days since 1970-01-01) on which a query window may start
MaxWinDay == 14
\* largest stored count of a series
MaxCount == 2
\* most rows of the appointments table
MaxAppointments == 2
\* most edits (PATCH requests that write, cancellations) applied to the tables
MaxEdits == 2

----------------------------------------------------------------------------
(* JavaScript values *)

Null == <<>>
Some(v) == <<v>>

\* JS truthiness of a nullable number: null, undefined and 0 are falsy
Truthy(x) == x # Null /\ x[1] # 0

\* JS truthiness of an optional string: undefined and '' are falsy
TruthyString(x) == x # Null /\ x[1] # ""

\* x || d
OrElse(x, d) == IF Truthy(x) THEN x[1] ELSE d

\* Number(x || 0) || null
NumberOrNull(x) == IF Truthy(x) THEN x ELSE Null

----------------------------------------------------------------------------
(* Date, time zone UTC *)

dayMs == 24 * 3600 * 1000

\* d.setHours(0, 0, 0, 0)
StartOfDay(t) == t - (t % dayMs)

\* d.getDay(): 0 = Sunday; day 0 of the epoch is a Thursday
GetDay(t) == ((t \div dayMs) + 4) % 7

\* d.getHours() * 60 + d.getMinutes()
StartMinutes(t) == (t % dayMs) \div (60 * 1000)

\* d.setHours(h, m, 0, 0)
SetHours(t, h, m) == StartOfDay(t) + h * 3600 * 1000 + m * 60 * 1000

weekdayMap == <<"SU", "MO", "TU", "WE", "TH", "FR", "SA">>

----------------------------------------------------------------------------
(* parseRRule.  A rule string is the sequence of its ';'-separated pieces,  *)
(* each piece the sequence of its '='-separated parts.                      *)

\* String.prototype.toUpperCase on the keys of the token alphabet
ToUpperCase(k) ==
  CASE k = "freq" -> "FREQ"
    [] k = "byday" -> "BYDAY"
    [] k = "interval" -> "INTERVAL"
    [] OTHER -> k

\* v.split(',') on the values of the token alphabet
SplitComma(v) ==
  CASE v = "MO,WE" -> <<"MO", "WE">>
    [] v = "WE,FR" -> <<"WE", "FR">>
    [] OTHER -> <<v>>

\* Number(v) on the values of the token alphabet; <<>> is NaN
Number(v) ==
  CASE v = "0" -> Some(0)
    [] v = "1" -> Some(1)
    [] v = "2" -> Some(2)
    [] v = "3" -> Some(3)
    [] OTHER -> Null

RECURSIVE parsePieces(_, _)
parsePieces(pieces, map) ==
  IF pieces = <<>> THEN map
  ELSE LET piece == Head(pieces)
           k == piece[1]
           hasV == Len(piece) >= 2
       IN IF k # "" /\ hasV /\ piece[2] # ""
          THEN parsePieces(Tail(pieces),
                 [key \in DOMAIN map \cup {ToUpperCase(k)} |->
                    IF key = ToUpperCase(k) THEN piece[2] ELSE map[key]])
          ELSE parsePieces(Tail(pieces), map)

\* a parse that reads the first piece only
parseRRuleFirstPieceOnly(rrule) == parsePieces(SubSeq(rrule, 1, 1), [key \in {} |-> ""])

parseRRule(rrule) == parsePieces(rrule, [key \in {} |-> ""])

----------------------------------------------------------------------------
(* genWeeklyInstances *)

\* a default of every weekday when the rule has no BYDAY
ByDayDefaultEveryDay(rule, dtstart) ==
  IF "BYDAY" \in DOMAIN rule
  THEN LET parts == SplitComma(rule["BYDAY"]) IN {parts[i] : i \in DOMAIN parts}
  ELSE {weekdayMap[i] : i \in DOMAIN weekdayMap}

\* (rule.BYDAY || weekdayMap[new Date(series.dtstart).getDay()]).split(',')
ByDay(rule, dtstart) ==
  LET parts == SplitComma(IF "BYDAY" \in DOMAIN rule THEN rule["BYDAY"]
                          ELSE weekdayMap[GetDay(dtstart) + 1])
  IN {parts[i] : i \in DOMAIN parts}

\* Math.max(1, Number(rule.INTERVAL || 1)); <<>> is NaN
Interval(rule) ==
  LET n == IF "INTERVAL" \in DOMAIN rule THEN Number(rule["INTERVAL"]) ELSE Some(1)
  IN IF n = Null THEN Null ELSE IF n[1] >= 1 THEN n ELSE Some(1)

\* Math.floor((cursor - startOfDay(dtstart)) / (7 * dayMs))
WeeksFromStart(cursor, dtstart) == (cursor - StartOfDay(dtstart)) \div (7 * dayMs)

\* a day test that counts every week, whatever the interval
DayMatchesEveryWeek(weeksFromStart, interval, byday, wd) ==
  weeksFromStart >= 0 /\ wd \in byday

\* weeksFromStart >= 0 && weeksFromStart % interval === 0 && byday.includes(wd)
DayMatches(weeksFromStart, interval, byday, wd) ==
  /\ weeksFromStart >= 0
  /\ interval # Null
  /\ weeksFromStart % interval[1] = 0
  /\ wd \in byday

\* instanceStart.setHours(floor(startMinutes / 60), startMinutes % 60, 0, 0)
InstanceStart(cursor, startMinutes) ==
  SetHours(cursor, startMinutes \div 60, startMinutes % 60)

\* s + (series.duration_min || 50) * 60 * 1000
InstanceEnd(s, duration_min) ==
  s + (IF duration_min # 0 THEN duration_min ELSE 50) * 60 * 1000

\* a window test without the upper end
InWindowNoUpperEnd(s, weekStart, weekEnd, dtstart) ==
  s >= weekStart /\ s >= dtstart

\* s >= weekStart && s <= weekEnd && s >= series.dtstart
InWindow(s, weekStart, weekEnd, dtstart) ==
  s >= weekStart /\ s <= weekEnd /\ s >= dtstart

\* an until test that also rejects the slot at until itself
PastUntilExclusive(until, s) == Truthy(until) /\ s >= until[1]

\* until && s > until
PastUntil(until, s) == Truthy(until) /\ s > until[1]

\* a count test that lets one more instance through
CountReachedOneLate(count, produced) == Truthy(count) /\ produced > count[1]

\* count && produced >= count
CountReached(count, produced) == Truthy(count) /\ produced >= count[1]

\* the while loop over the days of the window; c holds what the function
\* computed before the loop: byday, interval, until, count, startMinutes
RECURSIVE genLoop(_, _, _, _, _, _)
genLoop(series, c, weekStart, weekEnd, cursor, acc) ==
  IF cursor > weekEnd THEN acc
  ELSE LET wd == weekdayMap[GetDay(cursor) + 1]
           s == InstanceStart(cursor, c.startMinutes)
           push ==
             /\ DayMatches(WeeksFromStart(cursor, series.dtstart), c.interval, c.byday, wd)
             /\ InWindow(s, weekStart, weekEnd, series.dtstart)
             /\ ~PastUntil(c.until, s)
             /\ ~CountReached(c.count, Len(acc))
       IN genLoop(series, c, weekStart, weekEnd, cursor + dayMs,
                  IF push
                  THEN Append(acc, [original_instance_at |-> s, start_at |-> s,
                                    end_at |-> InstanceEnd(s, series.duration_min)])
                  ELSE acc)

genWeeklyInstances(series, weekStart, weekEnd) ==
  LET rule == parseRRule(series.rrule)
  IN IF "FREQ" \notin DOMAIN rule \/ rule["FREQ"] # "WEEKLY" THEN <<>>
     ELSE genLoop(series,
                  [byday |-> ByDay(rule, series.dtstart),
                   interval |-> Interval(rule),
                   until |-> NumberOrNull(series.until_at),
                   count |-> NumberOrNull(series.count),
                   startMinutes |-> StartMinutes(series.dtstart)],
                  weekStart, weekEnd, StartOfDay(weekStart), <<>>)

----------------------------------------------------------------------------
(* The slots of a series *)

\* dtstart with its seconds and milliseconds set to zero
MinuteOf(t) == t - (t % (60 * 1000))

\* t is a slot of the series' rule: on a listed weekday of a counted week, at
\* dtstart's hour and minute, not before dtstart
IsSlot(series, t) ==
  LET rule == parseRRule(series.rrule)
      weeks == (StartOfDay(t) - StartOfDay(series.dtstart)) \div (7 * dayMs)
  IN /\ "FREQ" \in DOMAIN rule /\ rule["FREQ"] = "WEEKLY"
     /\ weekdayMap[GetDay(t) + 1] \in ByDay(rule, series.dtstart)
     /\ Interval(rule) # Null /\ weeks >= 0 /\ weeks % Interval(rule)[1] = 0
     /\ t % dayMs = MinuteOf(series.dtstart) % dayMs
     /\ t >= series.dtstart

----------------------------------------------------------------------------
(* Inputs of the generator *)

At(day, tod) == day * dayMs + tod

\* 10:00:00.000, 10:00:30.000 and 14:00:00.000
TenOClock == 10 * 3600 * 1000
TenAndHalfMinute == 10 * 3600 * 1000 + 30 * 1000
TwoPm == 14 * 3600 * 1000

RuleWeekly == << <<"FREQ", "WEEKLY">> >>
RuleWe == << <<"FREQ", "WEEKLY">>, <<"BYDAY", "WE">> >>
RuleWe2 == << <<"FREQ", "WEEKLY">>, <<"BYDAY", "WE">>, <<"INTERVAL", "2">> >>
RuleMoWe == << <<"FREQ", "WEEKLY">>, <<"BYDAY", "MO,WE">> >>
RuleDaily == << <<"FREQ", "DAILY">> >>
\* the empty string: ''.split(';') is [''], and ''.split('=') is ['']
RuleEmpty == << <<"">> >>

\* 'X-FOO=BAR;freq=WEEKLY;JUNK;BYDAY=WE;': an unknown key, a lower-case key, a
\* piece without '=', and the empty piece after the last ';'
RuleNoisy == << <<"X-FOO", "BAR">>, <<"freq", "WEEKLY">>, <<"JUNK">>, <<"BYDAY", "WE">>, <<"">> >>
\* 'BYDAY=WE;INTERVAL=2': no FREQ
RuleNoFreq == << <<"BYDAY", "WE">>, <<"INTERVAL", "2">> >>
\* 'FREQ;BYDAY=WE': FREQ without '='
RuleFreqNoValue == << <<"FREQ">>, <<"BYDAY", "WE">> >>
\* 'FREQ=WEEKLY;INTERVAL=x': an interval that is not a number
RuleBadInterval == << <<"FREQ", "WEEKLY">>, <<"INTERVAL", "x">> >>

GenRules ==
  {RuleWeekly, RuleWe, RuleWe2, RuleMoWe, RuleDaily,
   RuleNoisy, RuleNoFreq, RuleFreqNoValue, RuleBadInterval}

\* day 6 is Wednesday 1970-01-07, day 7 the Thursday after it
GenSeriesRows ==
  [id : {1}, client_id : {1}, rrule : GenRules,
   dtstart : {At(6, TenOClock), At(6, TenAndHalfMinute), At(7, TenOClock)},
   duration_min : {0, 50},
   until_at : {Null, Some(At(13, TenOClock))},
   count : {Null} \cup {Some(n) : n \in 1..MaxCount}]

WindowStarts == {At(d, tod) : d \in 4..MaxWinDay, tod \in {0, TenOClock, TenAndHalfMinute}}

\* one week less a millisecond, one week, two weeks, and an inverted window
WindowLengths == {7 * dayMs - 1, 7 * dayMs, 14 * dayMs, 0 - dayMs}

Horizon == (MaxWinDay + 8) * dayMs

----------------------------------------------------------------------------
(* The generator called on its own *)

\* the PATCH requests that may be in flight together
StatusRequests == {"a", "b"}

\* no request is being handled
Idle == [post |-> Null, patch |-> Null, query |-> Null,
         status |-> [r \in StatusRequests |-> Null]]

InitStore ==
  /\ appointments = <<>>
  /\ recurring_series = <<>>
  /\ recurring_exceptions = <<>>
  /\ files = <<>>
  /\ edits = 0
  /\ eventList = <<>>
  /\ weekQuery = <<>>
  /\ icsDoc = <<>>
  /\ response = <<>>
  /\ inFlight = Idle

InitGen ==
  /\ InitStore
  /\ genSeries \in GenSeriesRows
  /\ genWindow = <<>>
  /\ generated = <<>>

GenCall ==
  \E weekStart \in WindowStarts, len \in WindowLengths :
    /\ genWindow = <<>>
    /\ len <= Horizon - weekStart
    /\ genWindow' = <<weekStart, weekStart + len>>
    /\ generated' = genWeeklyInstances(genSeries, weekStart, weekStart + len)
    /\ UNCHANGED <<storeVars, edits, eventList, weekQuery, icsDoc, response, inFlight, genSeries>>

NextGen == GenCall

SpecGen == InitGen /\ [][NextGen]_vars

----------------------------------------------------------------------------
(* Rows and ids *)

\* crypto.randomUUID(): a value no earlier call returned.  Ids are compared
\* within one table only, so the id of a new row is its row number there.
uuid(rows) == Len(rows) + 1

\* res.json(...), res.status(code).json(...), res.send(...): the endpoint that
\* answered and the status code of the answer
Respond(op, code) == Some([op |-> op, code |-> code])

\* the only client row; POST /api/appointments answers 404 for any other id
ClientIds == {1}

----------------------------------------------------------------------------
(* POST /api/appointments *)

NewSeriesRow(id, clientId, startAt, durationMin, recurring) ==
  [id |-> id, client_id |-> clientId, rrule |-> recurring.rrule, dtstart |-> startAt,
   duration_min |-> durationMin,
   until_at |-> NumberOrNull(recurring.untilAt),
   count |-> NumberOrNull(recurring.count)]

NewAppointmentRow(id, clientId, startAt, durationMin, recurringSeriesId) ==
  [id |-> id, client_id |-> clientId, start_at |-> startAt,
   end_at |-> startAt + durationMin * 60 * 1000, status |-> "Scheduled",
   recurring_series_id |-> recurringSeriesId, original_instance_at |-> Null]

\* request bodies: a one-off on Wednesday 1970-01-14 10:00, and a recurring
\* booking from Wednesday 1970-01-07 10:00
PostOneOff == [startAt |-> At(13, TenOClock), durationMin |-> 50, recurring |-> Null]
PostWeekly ==
  [startAt |-> At(6, TenOClock), durationMin |-> 50,
   recurring |-> Some([rrule |-> RuleWe, untilAt |-> Null, count |-> Null])]

\* a recurring booking whose rule is the empty string
PostEmptyRule ==
  [startAt |-> At(6, TenOClock), durationMin |-> 50,
   recurring |-> Some([rrule |-> RuleEmpty, untilAt |-> Null, count |-> Null])]

PostBodies == {PostOneOff, PostWeekly}

\* the handler, answering one request
PostRequest(body) ==
  \E clientId \in ClientIds :
    /\ Len(appointments) < MaxAppointments
    /\ body.startAt # 0
    /\ LET recurring == body.recurring
           recurringSeriesId == IF recurring # Null THEN Some(uuid(recurring_series))
                                ELSE Null
           id == uuid(appointments)
       IN /\ recurring_series' =
               IF recurring # Null
               THEN Append(recurring_series,
                      NewSeriesRow(recurringSeriesId[1], clientId, body.startAt,
                                   body.durationMin, recurring[1]))
               ELSE recurring_series
          /\ appointments' =
               Append(appointments,
                 NewAppointmentRow(id, clientId, body.startAt, body.durationMin,
                                   recurringSeriesId))
    /\ eventList' = <<>>
    /\ weekQuery' = <<>>
    /\ icsDoc' = <<>>
    /\ response' = Respond("POST", 200)
    /\ UNCHANGED <<recurring_exceptions, files, edits, inFlight, genVars>>

PostAppointment == \E body \in PostBodies : PostRequest(body)

----------------------------------------------------------------------------
(* PATCH /api/appointments/:id *)

\* scope === 'series' && appt.recurring_series_id && (startAt || endAt)
IsSeriesEdit(appt, startAt, endAt, scope) ==
  scope = "series" /\ appt.recurring_series_id # Null /\ (Truthy(startAt) \/ Truthy(endAt))

\* (startAt || endAt) && appt.recurring_series_id && scope === 'this'
IsThisEdit(appt, startAt, endAt, scope) ==
  (Truthy(startAt) \/ Truthy(endAt)) /\ appt.recurring_series_id # Null /\ scope = "this"

\* a shift that leaves end_at where it was
ShiftAppointmentsStartOnly(rows, seriesId, delta) ==
  [i \in DOMAIN rows |->
     IF rows[i].recurring_series_id = Some(seriesId)
     THEN [rows[i] EXCEPT !.start_at = @ + delta]
     ELSE rows[i]]

\* UPDATE appointments SET start_at = start_at + ?, end_at = end_at + ?
\*   WHERE recurring_series_id = ?
ShiftAppointments(rows, seriesId, delta) ==
  [i \in DOMAIN rows |->
     IF rows[i].recurring_series_id = Some(seriesId)
     THEN [rows[i] EXCEPT !.start_at = @ + delta, !.end_at = @ + delta]
     ELSE rows[i]]

\* UPDATE recurring_series SET dtstart = dtstart + ? WHERE id = ?
ShiftSeries(rows, seriesId, delta) ==
  [i \in DOMAIN rows |->
     IF rows[i].id = seriesId THEN [rows[i] EXCEPT !.dtstart = @ + delta] ELSE rows[i]]

\* INSERT INTO recurring_exceptions (...) VALUES (..., 'Moved', ...); the new row's
\* uuid is the number of the edit that writes it
InsertMovedException(rows, id, appt, startAt, endAt) ==
  Append(rows,
    [id |-> id, recurring_series_id |-> appt.recurring_series_id[1],
     original_instance_at |-> OrElse(appt.original_instance_at, appt.start_at),
     new_start_at |-> Some(OrElse(startAt, appt.start_at)),
     new_end_at |-> Some(OrElse(endAt, appt.end_at)),
     status |-> "Moved"])

\* UPDATE appointments SET start_at = ?, end_at = ?, original_instance_at = ? WHERE id = ?
MoveAppointment(rows, appt, startAt, endAt) ==
  [i \in DOMAIN rows |->
     IF rows[i].id = appt.id
     THEN [rows[i] EXCEPT !.start_at = OrElse(startAt, appt.start_at),
                          !.end_at = OrElse(endAt, appt.end_at),
                          !.original_instance_at =
                             Some(OrElse(appt.original_instance_at, appt.start_at))]
     ELSE rows[i]]

\* UPDATE appointments SET start_at = COALESCE(?, start_at), end_at = COALESCE(?, end_at),
\*   status = COALESCE(?, status) WHERE id = ?
CoalesceAppointment(rows, appt, startAt, endAt, status) ==
  [i \in DOMAIN rows |->
     IF rows[i].id = appt.id
     THEN [rows[i] EXCEPT !.start_at = IF startAt # Null THEN startAt[1] ELSE @,
                          !.end_at = IF endAt # Null THEN endAt[1] ELSE @,
                          !.status = IF status # Null THEN status[1] ELSE @]
     ELSE rows[i]]

\* a note creation that writes no files row
createSessionNoteSkipped(rows, id, appt) == rows

\* SELECT id, path FROM files WHERE related_appointment_id = ?
NoteExists(rows, appointmentId) ==
  \E i \in DOMAIN rows : rows[i].related_appointment_id = Some(appointmentId)

\* INSERT INTO files (...) VALUES (?, ?, 'SessionNote', ?, 'md', ?, ?, ?, ?)
InsertSessionNote(rows, id, appt) ==
  Append(rows, [id |-> id, client_id |-> appt.client_id, category |-> "SessionNote",
                related_appointment_id |-> Some(appt.id)])

\* createSessionNoteForAppointment: one files row unless one is already related
createSessionNoteForAppointment(rows, id, appt) ==
  IF NoteExists(rows, appt.id) THEN rows ELSE InsertSessionNote(rows, id, appt)

APPOINTMENT == {"Scheduled", "Completed", "Canceled"}

\* Thursday 1970-01-15 14:00, and 50 minutes later
MovedStart == At(14, TwoPm)
MovedEnd == At(14, TwoPm) + 50 * 60 * 1000

\* request bodies; scope defaults to 'this'
PatchMoveThis ==
  [startAt |-> Some(MovedStart), endAt |-> Null, status |-> Null, scope |-> "this"]
PatchEndThis ==
  [startAt |-> Null, endAt |-> Some(MovedEnd), status |-> Null, scope |-> "this"]
PatchMoveSeries ==
  [startAt |-> Some(MovedStart), endAt |-> Null, status |-> Null, scope |-> "series"]
PatchStatus(status) ==
  [startAt |-> Null, endAt |-> Null, status |-> Some(status), scope |-> "this"]
\* new times and status Completed in one request
PatchMoveThisCompleted ==
  [startAt |-> Some(MovedStart), endAt |-> Null, status |-> Some("Completed"),
   scope |-> "this"]

PatchBodies ==
  {PatchMoveThis, PatchEndThis, PatchMoveSeries, PatchStatus("Canceled"),
   PatchStatus("Pending")}

\* the handler, answering one request for the appointment of row n
PatchRequest(n, body) ==
    LET appt == appointments[n]
        startAt == body.startAt
        endAt == body.endAt
        status == body.status
        scope == body.scope
        delta == OrElse(startAt, appt.start_at) - appt.start_at
    IN IF TruthyString(status) /\ status[1] \notin APPOINTMENT
       THEN /\ response' = Respond("PATCH", 400)
            /\ eventList' = <<>>
            /\ weekQuery' = <<>>
            /\ icsDoc' = <<>>
            /\ UNCHANGED <<storeVars, edits, inFlight, genVars>>
       ELSE /\ edits < MaxEdits
            /\ edits' = edits + 1
            /\ appointments' =
                 IF IsSeriesEdit(appt, startAt, endAt, scope)
                 THEN ShiftAppointments(appointments, appt.recurring_series_id[1], delta)
                 ELSE IF IsThisEdit(appt, startAt, endAt, scope)
                 THEN MoveAppointment(appointments, appt, startAt, endAt)
                 ELSE CoalesceAppointment(appointments, appt, startAt, endAt, status)
            /\ recurring_series' =
                 IF IsSeriesEdit(appt, startAt, endAt, scope)
                 THEN ShiftSeries(recurring_series, appt.recurring_series_id[1], delta)
                 ELSE recurring_series
            /\ recurring_exceptions' =
                 IF ~IsSeriesEdit(appt, startAt, endAt, scope)
                    /\ IsThisEdit(appt, startAt, endAt, scope)
                 THEN InsertMovedException(recurring_exceptions, edits + 1, appt, startAt, endAt)
                 ELSE recurring_exceptions
            /\ files' =
                 IF status = Some("Completed") /\ appt.status # "Completed"
                 THEN createSessionNoteForAppointment(files, uuid(files), appointments'[n])
                 ELSE files
            /\ eventList' = <<>>
            /\ weekQuery' = <<>>
            /\ icsDoc' = <<>>
            /\ response' = Respond("PATCH", 200)
            /\ UNCHANGED <<inFlight, genVars>>

PatchAppointment ==
  \E n \in DOMAIN appointments, body \in PatchBodies : PatchRequest(n, body)

----------------------------------------------------------------------------
(* GET /api/schedule/week *)

\* SELECT a.* FROM appointments a JOIN clients c ... WHERE a.start_at BETWEEN ? AND ?
Singles(appts, weekStart, weekEnd) ==
  SelectSeq(appts, LAMBDA r : r.start_at >= weekStart /\ r.start_at <= weekEnd)

\* a fetch of the series without until_at only
SeriesRowsOpenEndedOnly(series, weekStart, weekEnd) ==
  SelectSeq(series, LAMBDA r : r.dtstart <= weekEnd /\ r.until_at = Null)

\* SELECT * FROM recurring_series WHERE dtstart <= ? AND (until_at IS NULL OR until_at >= ?)
SeriesRows(series, weekStart, weekEnd) ==
  SelectSeq(series, LAMBDA r : r.dtstart <= weekEnd
                               /\ (r.until_at = Null \/ r.until_at[1] >= weekStart))

SingleEvent(r) ==
  [id |-> <<r.id>>, source |-> "single", clientId |-> r.client_id,
   startAt |-> r.start_at, endAt |-> r.end_at, status |-> r.status,
   recurringSeriesId |-> r.recurring_series_id,
   originalInstanceAt |-> r.original_instance_at]

\* SELECT * FROM recurring_exceptions WHERE recurring_series_id = ?
ExceptionsOf(exceptions, seriesId) ==
  SelectSeq(exceptions, LAMBDA e : e.recurring_series_id = seriesId)

\* new Map(exceptions.map(e => [e.original_instance_at, e])).get(key): the last
\* row with that key, <<>> when there is none
MapGet(exceptions, key) ==
  LET hits == {i \in DOMAIN exceptions : exceptions[i].original_instance_at = key}
  IN IF hits = {} THEN Null
     ELSE Some(exceptions[CHOOSE i \in hits : \A j \in hits : j <= i])

\* ex?.status === 'Canceled'
IsCanceled(ex) == ex # Null /\ ex[1].status = "Canceled"

\* an event that reports the status of the exception row of its slot
RecurringEventExceptionStatus(series, item, ex) ==
  [id |-> <<series.id, item.original_instance_at>>, source |-> "recurring",
   clientId |-> series.client_id,
   startAt |-> IF ex # Null THEN OrElse(ex[1].new_start_at, item.start_at) ELSE item.start_at,
   endAt |-> IF ex # Null THEN OrElse(ex[1].new_end_at, item.end_at) ELSE item.end_at,
   status |-> IF ex # Null THEN ex[1].status ELSE "Scheduled",
   recurringSeriesId |-> Some(series.id),
   originalInstanceAt |-> Some(item.original_instance_at)]

\* the event pushed for one generated item; id is `${series.id}:${original_instance_at}`
RecurringEvent(series, item, ex) ==
  [id |-> <<series.id, item.original_instance_at>>, source |-> "recurring",
   clientId |-> series.client_id,
   startAt |-> IF ex # Null THEN OrElse(ex[1].new_start_at, item.start_at) ELSE item.start_at,
   endAt |-> IF ex # Null THEN OrElse(ex[1].new_end_at, item.end_at) ELSE item.end_at,
   status |-> "Scheduled",
   recurringSeriesId |-> Some(series.id),
   originalInstanceAt |-> Some(item.original_instance_at)]

\* an overlay that pushes an event for every Moved exception row of the series
OverlayAddingMoved(series, items, exceptions) ==
  LET moved == SelectSeq(exceptions, LAMBDA e : e.status = "Moved")
  IN [i \in DOMAIN moved |->
        RecurringEvent(series,
          [original_instance_at |-> moved[i].original_instance_at,
           start_at |-> moved[i].original_instance_at,
           end_at |-> moved[i].original_instance_at],
          Some(moved[i]))]

\* for (const item of generated) { ...; if (ex?.status === 'Canceled') continue; push }
Overlay(series, items, exceptions) ==
  LET kept == SelectSeq(items,
                LAMBDA item : ~IsCanceled(MapGet(exceptions, item.original_instance_at)))
  IN [i \in DOMAIN kept |->
        RecurringEvent(series, kept[i], MapGet(exceptions, kept[i].original_instance_at))]

\* for (const series of seriesRows) { ... }
RECURSIVE ExpandSeries(_, _, _, _)
ExpandSeries(seriesRows, exceptions, weekStart, weekEnd) ==
  IF seriesRows = <<>> THEN <<>>
  ELSE Overlay(Head(seriesRows),
               genWeeklyInstances(Head(seriesRows), weekStart, weekEnd),
               ExceptionsOf(exceptions, Head(seriesRows).id))
       \o ExpandSeries(Tail(seriesRows), exceptions, weekStart, weekEnd)

\* an insertion that leaves the list in arrival order
InsertAtEnd(sorted, ev) == Append(sorted, ev)

\* an insertion that puts an event before the events of equal startAt
InsertBeforeEquals(sorted, ev) ==
  LET k == Cardinality({i \in DOMAIN sorted : sorted[i].startAt < ev.startAt})
  IN SubSeq(sorted, 1, k) \o <<ev>> \o SubSeq(sorted, k + 1, Len(sorted))

\* Array.prototype.sort((a, b) => a.startAt - b.startAt), a stable sort
InsertByStartAt(sorted, ev) ==
  LET k == Cardinality({i \in DOMAIN sorted : sorted[i].startAt <= ev.startAt})
  IN SubSeq(sorted, 1, k) \o <<ev>> \o SubSeq(sorted, k + 1, Len(sorted))

RECURSIVE SortByStartAt(_)
SortByStartAt(list) ==
  IF list = <<>> THEN <<>>
  ELSE InsertByStartAt(SortByStartAt(SubSeq(list, 1, Len(list) - 1)), list[Len(list)])

\* the list built from the rows read: singles mapped, each series expanded and
\* overlaid, the whole sorted
MergeEvents(singles, seriesRows, exceptions, weekStart, weekEnd) ==
  SortByStartAt([i \in DOMAIN singles |-> SingleEvent(singles[i])]
                \o ExpandSeries(seriesRows, exceptions, weekStart, weekEnd))

WeekEvents(appts, series, exceptions, weekStart, weekEnd) ==
  MergeEvents(Singles(appts, weekStart, weekEnd), SeriesRows(series, weekStart, weekEnd),
              exceptions, weekStart, weekEnd)

\* the weeks of Monday 1970-01-05 and of Monday 1970-01-12, and both together
QueryWindows ==
  {<<At(4, 0), At(11, 0) - 1>>, <<At(11, 0), At(18, 0) - 1>>, <<At(4, 0), At(18, 0) - 1>>}

\* the handler, answering one request; a bound of 0 stands for a missing or
\* non-numeric one (Number(undefined) is NaN, which is falsy like 0)
WeekRequest(w) ==
    /\ IF w[1] = 0 \/ w[2] = 0
       THEN /\ response' = Respond("WEEK", 400)
            /\ eventList' = <<>>
            /\ weekQuery' = <<>>
       ELSE /\ eventList' = WeekEvents(appointments, recurring_series, recurring_exceptions,
                                       w[1], w[2])
            /\ weekQuery' = w
            /\ response' = Respond("WEEK", 200)
    /\ icsDoc' = <<>>
    /\ UNCHANGED <<storeVars, edits, inFlight, genVars>>

GetScheduleWeek == \E w \in QueryWindows : WeekRequest(w)

----------------------------------------------------------------------------
(* GET /api/ics.  The document is the list `lines` that the handler joins   *)
(* with CRLF, each line the pair of its name and its value.                 *)

\* formatIcsDate: day, hours, minutes and seconds of the UTC time; the
\* milliseconds are dropped
formatIcsDate(epochMs) ==
  <<epochMs \div dayMs, (epochMs % dayMs) \div (3600 * 1000),
    ((epochMs % dayMs) \div (60 * 1000)) % 60, ((epochMs % dayMs) \div 1000) % 60>>

\* clients.name of the only client row, character by character
ClientName(clientId) == <<"L", "i", ",", "W">>

\* String(e.client_name).replace(/[,;\\]/g, '')
StripReserved(name) == SelectSeq(name, LAMBDA ch : ch \notin {",", ";", "\\"})

\* a fetch of every row, whatever its status
IcsFetchAll(appts) == appts

\* SELECT a.*, c.name AS client_name FROM appointments a JOIN clients c
\*   ON c.id = a.client_id WHERE a.status != 'Canceled'
IcsFetch(appts) == SelectSeq(appts, LAMBDA r : r.status # "Canceled")

\* an export that writes no RRULE line
RRuleLinesNone(series, e) == <<>>

\* SELECT rrule FROM recurring_series WHERE id = ?; if (series?.rrule) push RRULE
RRuleLines(series, e) ==
  IF e.recurring_series_id = Null THEN <<>>
  ELSE LET hits == SelectSeq(series, LAMBDA r : r.id = e.recurring_series_id[1])
       IN IF hits # <<>> /\ hits[1].rrule # RuleEmpty
          THEN << <<"RRULE", hits[1].rrule>> >>
          ELSE <<>>

\* the lines pushed for one fetched row
VEvent(e, series, nowMs) ==
  << <<"BEGIN", "VEVENT">>,
     <<"UID", e.id>>,
     <<"DTSTAMP", formatIcsDate(nowMs)>>,
     <<"DTSTART", formatIcsDate(e.start_at)>>,
     <<"DTEND", formatIcsDate(e.end_at)>>,
     <<"SUMMARY", StripReserved(ClientName(e.client_id))>> >>
  \o (IF e.status = "Canceled" THEN << <<"STATUS", "CANCELLED">> >> ELSE <<>>)
  \o RRuleLines(series, e)
  \o << <<"END", "VEVENT">> >>

RECURSIVE VEvents(_, _, _)
VEvents(events, series, nowMs) ==
  IF events = <<>> THEN <<>>
  ELSE VEvent(Head(events), series, nowMs) \o VEvents(Tail(events), series, nowMs)

IcsLines(appts, series, nowMs) ==
  << <<"BEGIN", "VCALENDAR">>, <<"VERSION", "2.0">>,
     <<"PRODID", "-//Counseling CRM//CN">>, <<"CALSCALE", "GREGORIAN">> >>
  \o VEvents(IcsFetch(appts), series, nowMs)
  \o << <<"END", "VCALENDAR">> >>

\* readings of Date.now(): Thursday 1970-01-22 00:00:00.000 and half a second later
NowValues == {At(21, 0), At(21, 500)}

\* an export that deletes the Canceled rows instead of leaving them out
GetIcsDeletingCanceled ==
  \E nowMs \in NowValues :
    /\ appointments' = IcsFetch(appointments)
    /\ icsDoc' = IcsLines(appointments, recurring_series, nowMs)
    /\ response' = Respond("ICS", 200)
    /\ eventList' = <<>>
    /\ weekQuery' = <<>>
    /\ UNCHANGED <<recurring_series, recurring_exceptions, files, edits, inFlight, genVars>>

GetIcs ==
  \E nowMs \in NowValues :
    /\ icsDoc' = IcsLines(appointments, recurring_series, nowMs)
    /\ response' = Respond("ICS", 200)
    /\ eventList' = <<>>
    /\ weekQuery' = <<>>
    /\ UNCHANGED <<storeVars, edits, inFlight, genVars>>

----------------------------------------------------------------------------
(* An occurrence canceled under "this occurrence only": the write that leaves *)
(* a Canceled row in recurring_exceptions, replacing the row of that slot.    *)

CancelSlots == {At(6, TenOClock), At(13, TenOClock)}

RecordCanceledException ==
  \E n \in DOMAIN recurring_series, t \in CancelSlots :
    LET series == recurring_series[n]
        others == SelectSeq(recurring_exceptions,
                    LAMBDA e : ~(e.recurring_series_id = series.id
                                 /\ e.original_instance_at = t))
    IN /\ edits < MaxEdits
       /\ edits' = edits + 1
       /\ IsSlot(series, t)
       /\ recurring_exceptions' =
            Append(others, [id |-> edits + 1, recurring_series_id |-> series.id,
                            original_instance_at |-> t, new_start_at |-> Null,
                            new_end_at |-> Null, status |-> "Canceled"])
       /\ eventList' = <<>>
       /\ weekQuery' = <<>>
       /\ icsDoc' = <<>>
       /\ response' = <<>>
       /\ UNCHANGED <<appointments, recurring_series, files, inFlight, genVars>>

----------------------------------------------------------------------------
(* The server *)

Init ==
  /\ InitStore
  /\ genSeries = <<>>
  /\ genWindow = <<>>
  /\ generated = <<>>

Next ==
  \/ PostAppointment
  \/ PatchAppointment
  \/ GetScheduleWeek
  \/ RecordCanceledException

Spec == Init /\ [][Next]_vars

----------------------------------------------------------------------------
(* The server under requests that set a status, book with an empty rule,   *)
(* export the calendar, and ask for a window that is inverted or lacks a   *)
(* bound.                                                                  *)

ApiPostBodies == {PostOneOff, PostWeekly, PostEmptyRule}

ApiPatchBodies ==
  {PatchMoveThis, PatchStatus("Canceled"), PatchStatus("Completed"), PatchStatus("Pending"),
   PatchStatus(""), PatchMoveThisCompleted}

\* the week of Monday 1970-01-05, a window that ends before it starts, and a
\* request without weekStart
ApiQueryWindows ==
  {<<At(4, 0), At(11, 0) - 1>>, <<At(11, 0), At(7, 0)>>, <<0, At(11, 0) - 1>>}

PostAnyAppointment == \E body \in ApiPostBodies : PostRequest(body)

PatchAnyAppointment ==
  \E n \in DOMAIN appointments, body \in ApiPatchBodies : PatchRequest(n, body)

GetAnyWeek == \E w \in ApiQueryWindows : WeekRequest(w)

NextApi ==
  \/ PostAnyAppointment
  \/ PatchAnyAppointment
  \/ GetAnyWeek
  \/ GetIcs

SpecApi == Init /\ [][NextApi]_vars

----------------------------------------------------------------------------
(* The server under bookings that end: series with and without untilAt,    *)
(* edits of a whole series, and windows before, around and after untilAt.  *)

\* a recurring booking from Wednesday 1970-01-07 10:00 until Wednesday
\* 1970-01-14 10:00
PostWeeklyUntil ==
  [startAt |-> At(6, TenOClock), durationMin |-> 50,
   recurring |-> Some([rrule |-> RuleWe, untilAt |-> Some(At(13, TenOClock)),
                       count |-> Null])]

UntilPostBodies == {PostWeekly, PostWeeklyUntil}

UntilPatchBodies == {PatchMoveSeries}

\* the weeks of Monday 1970-01-05 and of Monday 1970-01-12, both together, and
\* the week of Thursday 1970-01-15
UntilQueryWindows == QueryWindows \cup {<<At(14, 0), At(21, 0) - 1>>}

PostEndingAppointment == \E body \in UntilPostBodies : PostRequest(body)

PatchWholeSeries ==
  \E n \in DOMAIN appointments, body \in UntilPatchBodies : PatchRequest(n, body)

GetWeekAroundUntil == \E w \in UntilQueryWindows : WeekRequest(w)

NextUntil ==
  \/ PostEndingAppointment
  \/ PatchWholeSeries
  \/ GetWeekAroundUntil

SpecUntil == Init /\ [][NextUntil]_vars

----------------------------------------------------------------------------
(* The handlers step by step.  A handler runs until its next await of the   *)
(* database; between two of its statements another request may run.  At     *)
(* most one request of each endpoint is in flight.  No step writes          *)
(* recurring_exceptions here, so the reads of it that follow the read of    *)
(* the series rows are one step.                                            *)

outVars == <<eventList, weekQuery, icsDoc, response>>

\* POST up to and including the INSERT INTO recurring_series
PostInsertSeries ==
  \E clientId \in ClientIds, body \in PostBodies :
    /\ inFlight.post = Null
    /\ Len(appointments) < MaxAppointments
    /\ Len(recurring_series) < MaxAppointments
    /\ body.startAt # 0
    /\ LET recurring == body.recurring
           recurringSeriesId == IF recurring # Null THEN Some(uuid(recurring_series))
                                ELSE Null
       IN /\ recurring_series' =
               IF recurring # Null
               THEN Append(recurring_series,
                      NewSeriesRow(recurringSeriesId[1], clientId, body.startAt,
                                   body.durationMin, recurring[1]))
               ELSE recurring_series
          /\ inFlight' = [inFlight EXCEPT !.post =
                            Some([clientId |-> clientId, body |-> body,
                                  recurringSeriesId |-> recurringSeriesId])]
    /\ UNCHANGED <<appointments, recurring_exceptions, files, edits, outVars, genVars>>

\* the INSERT INTO appointments and the answer
PostInsertAppointment ==
  /\ inFlight.post # Null
  /\ LET p == inFlight.post[1]
     IN appointments' =
          Append(appointments,
            NewAppointmentRow(uuid(appointments), p.clientId, p.body.startAt,
                              p.body.durationMin, p.recurringSeriesId))
  /\ inFlight' = [inFlight EXCEPT !.post = Null]
  /\ eventList' = <<>>
  /\ weekQuery' = <<>>
  /\ icsDoc' = <<>>
  /\ response' = Respond("POST", 200)
  /\ UNCHANGED <<recurring_series, recurring_exceptions, files, edits, genVars>>

\* db.run calls back with an error for the INSERT INTO appointments: the
\* promise is rejected and the catch clause answers 500
PostInsertAppointmentFails ==
  /\ inFlight.post # Null
  /\ inFlight' = [inFlight EXCEPT !.post = Null]
  /\ eventList' = <<>>
  /\ weekQuery' = <<>>
  /\ icsDoc' = <<>>
  /\ response' = Respond("POST", 500)
  /\ UNCHANGED <<storeVars, edits, genVars>>

\* PATCH with scope 'series' up to and including the UPDATE appointments
PatchShiftAppointments ==
  \E n \in DOMAIN appointments :
    LET appt == appointments[n]
        body == PatchMoveSeries
        delta == OrElse(body.startAt, appt.start_at) - appt.start_at
    IN /\ inFlight.patch = Null
       /\ edits < MaxEdits
       /\ edits' = edits + 1
       /\ IsSeriesEdit(appt, body.startAt, body.endAt, body.scope)
       /\ appointments' = ShiftAppointments(appointments, appt.recurring_series_id[1], delta)
       /\ inFlight' = [inFlight EXCEPT !.patch =
                         Some([seriesId |-> appt.recurring_series_id[1], delta |-> delta])]
       /\ UNCHANGED <<recurring_series, recurring_exceptions, files, outVars, genVars>>

\* the UPDATE recurring_series and the answer
PatchShiftSeries ==
  /\ inFlight.patch # Null
  /\ LET p == inFlight.patch[1]
     IN recurring_series' = ShiftSeries(recurring_series, p.seriesId, p.delta)
  /\ inFlight' = [inFlight EXCEPT !.patch = Null]
  /\ eventList' = <<>>
  /\ weekQuery' = <<>>
  /\ icsDoc' = <<>>
  /\ response' = Respond("PATCH", 200)
  /\ UNCHANGED <<appointments, recurring_exceptions, files, edits, genVars>>

\* GET /api/schedule/week up to and including the SELECT of the appointments
QueryReadSingles ==
  \E w \in QueryWindows :
    /\ inFlight.query = Null
    /\ w[1] # 0 /\ w[2] # 0
    /\ inFlight' = [inFlight EXCEPT !.query =
                      Some([w |-> w, singles |-> Singles(appointments, w[1], w[2]),
                            seriesRows |-> Null])]
    /\ UNCHANGED <<storeVars, edits, outVars, genVars>>

\* the SELECT of the series rows
QueryReadSeries ==
  /\ inFlight.query # Null
  /\ inFlight.query[1].seriesRows = Null
  /\ LET q == inFlight.query[1]
     IN inFlight' = [inFlight EXCEPT !.query =
                       Some([q EXCEPT !.seriesRows =
                               Some(SeriesRows(recurring_series, q.w[1], q.w[2]))])]
  /\ UNCHANGED <<storeVars, edits, outVars, genVars>>

\* the loop over the series rows, the sort and the answer
QueryRespond ==
  /\ inFlight.query # Null
  /\ inFlight.query[1].seriesRows # Null
  /\ LET q == inFlight.query[1]
     IN /\ eventList' = MergeEvents(q.singles, q.seriesRows[1], recurring_exceptions,
                                    q.w[1], q.w[2])
        /\ weekQuery' = q.w
  /\ inFlight' = [inFlight EXCEPT !.query = Null]
  /\ icsDoc' = <<>>
  /\ response' = Respond("WEEK", 200)
  /\ UNCHANGED <<storeVars, edits, genVars>>

NextConc ==
  \/ PostInsertSeries
  \/ PostInsertAppointment
  \/ PostInsertAppointmentFails
  \/ PatchShiftAppointments
  \/ PatchShiftSeries
  \/ QueryReadSingles
  \/ QueryReadSeries
  \/ QueryRespond

SpecConc == Init /\ [][NextConc]_vars

----------------------------------------------------------------------------
(* PATCH requests that set a status, step by step.  Up to two of them are   *)
(* in flight together; each runs from one await of the database to the      *)
(* next, and answers as soon as its last statement has run.                 *)

StatusPatchBodies == {PatchStatus("Completed"), PatchStatus("Scheduled")}

\* most PATCH requests that write: one more than MaxEdits, so that a status
\* can go to Completed, back and to Completed again
MaxStatusEdits == MaxEdits + 1

PostOneOffAppointment == PostRequest(PostOneOff)

\* the answer of request r
StatusPatchAnswer(r) ==
  /\ eventList' = <<>>
  /\ weekQuery' = <<>>
  /\ icsDoc' = <<>>
  /\ response' = Respond("PATCH", 200)

\* const appt = await get('SELECT * FROM appointments WHERE id = ?')
StatusPatchRead ==
  \E r \in StatusRequests, n \in DOMAIN appointments, body \in StatusPatchBodies :
    /\ inFlight.status[r] = Null
    /\ edits < MaxStatusEdits
    /\ inFlight' = [inFlight EXCEPT !.status[r] =
                      Some([body |-> body, appt |-> appointments[n], pc |-> "update"])]
    /\ UNCHANGED <<storeVars, edits, outVars, genVars>>

\* the UPDATE of the else branch (the bodies carry no times), and the test
\* status === 'Completed' && appt.status !== 'Completed' on the row read before
StatusPatchUpdate ==
  \E r \in StatusRequests :
    /\ inFlight.status[r] # Null
    /\ inFlight.status[r][1].pc = "update"
    /\ LET q == inFlight.status[r][1]
           noted == q.body.status = Some("Completed") /\ q.appt.status # "Completed"
       IN /\ ~IsSeriesEdit(q.appt, q.body.startAt, q.body.endAt, q.body.scope)
          /\ ~IsThisEdit(q.appt, q.body.startAt, q.body.endAt, q.body.scope)
          /\ appointments' = CoalesceAppointment(appointments, q.appt, q.body.startAt,
                                                 q.body.endAt, q.body.status)
          /\ edits' = edits + 1
          /\ IF noted
             THEN /\ inFlight' = [inFlight EXCEPT !.status[r] = Some([q EXCEPT !.pc = "note"])]
                  /\ UNCHANGED outVars
             ELSE /\ inFlight' = [inFlight EXCEPT !.status[r] = Null]
                  /\ StatusPatchAnswer(r)
    /\ UNCHANGED <<recurring_series, recurring_exceptions, files, genVars>>

\* createSessionNoteForAppointment up to its SELECT ... FROM files: the row of
\* the appointment is found (no row is ever deleted), then if (exists) return
StatusPatchNoteCheck ==
  \E r \in StatusRequests :
    /\ inFlight.status[r] # Null
    /\ inFlight.status[r][1].pc = "note"
    /\ LET q == inFlight.status[r][1]
       IN IF NoteExists(files, q.appt.id)
          THEN /\ inFlight' = [inFlight EXCEPT !.status[r] = Null]
               /\ StatusPatchAnswer(r)
          ELSE /\ inFlight' = [inFlight EXCEPT !.status[r] = Some([q EXCEPT !.pc = "insert"])]
               /\ UNCHANGED outVars
    /\ UNCHANGED <<storeVars, edits, genVars>>

\* the INSERT INTO files of createSessionNoteForAppointment, and the answer
StatusPatchNoteInsert ==
  \E r \in StatusRequests :
    /\ inFlight.status[r] # Null
    /\ inFlight.status[r][1].pc = "insert"
    /\ files' = InsertSessionNote(files, uuid(files), inFlight.status[r][1].appt)
    /\ inFlight' = [inFlight EXCEPT !.status[r] = Null]
    /\ StatusPatchAnswer(r)
    /\ UNCHANGED <<appointments, recurring_series, recurring_exceptions, edits, genVars>>

NextNotes ==
  \/ PostOneOffAppointment
  \/ StatusPatchRead
  \/ StatusPatchUpdate
  \/ StatusPatchNoteCheck
  \/ StatusPatchNoteInsert

SpecNotes == Init /\ [][NextNotes]_vars

----------------------------------------------------------------------------
(* Properties of the generator, under SpecGen *)

GenCalled == genWindow # <<>>
GenStarts == {generated[i].start_at : i \in DOMAIN generated}
GenRule == parseRRule(genSeries.rrule)
GenIsWeekly == "FREQ" \in DOMAIN GenRule /\ GenRule["FREQ"] = "WEEKLY"

\* the slots of the series from dtstart up to, and without, t
SlotsBefore(series, t) ==
  {u \in {At(d, MinuteOf(series.dtstart) % dayMs) :
            d \in (series.dtstart \div dayMs)..(t \div dayMs)} :
     IsSlot(series, u) /\ u < t}

\* C2: with count = N, no generated occurrence has N or more slots of the
\* series before it, whichever window is asked for.
C2_CountBoundsWholeSequence ==
  (GenCalled /\ Truthy(genSeries.count) /\ genSeries.until_at = Null) =>
    \A i \in DOMAIN generated :
      Cardinality(SlotsBefore(genSeries, generated[i].start_at)) < genSeries.count[1]

\* C3: every generated instance starts inside the window asked for.
C3_WindowContainment ==
  GenCalled =>
    \A i \in DOMAIN generated :
      genWindow[1] <= generated[i].start_at /\ generated[i].start_at <= genWindow[2]

C3_Witness ==
  /\ GenCalled
  /\ Len(generated) >= 2
  /\ generated[Len(generated)].start_at = genWindow[2]

\* C4: every generated instance starts at or after dtstart and, when untilAt
\* is set, at or before it; a slot that equals untilAt and lies in the window
\* is generated (no count set).
C4_SeriesBounds ==
  GenCalled =>
    /\ \A i \in DOMAIN generated :
         /\ generated[i].start_at >= genSeries.dtstart
         /\ genSeries.until_at # Null => generated[i].start_at <= genSeries.until_at[1]
    /\ ( /\ genSeries.until_at # Null
         /\ genSeries.count = Null
         /\ IsSlot(genSeries, genSeries.until_at[1])
         /\ genWindow[1] <= genSeries.until_at[1]
         /\ genSeries.until_at[1] <= genWindow[2] )
       => genSeries.until_at[1] \in GenStarts

C4_Witness ==
  /\ GenCalled
  /\ genSeries.until_at # Null
  /\ genSeries.until_at[1] \in GenStarts
  /\ genWindow[2] > genSeries.until_at[1] + 6 * dayMs

\* a series on a Wednesday with BYDAY=WE and INTERVAL=2, no untilAt, no count
C5_Case ==
  /\ GenCalled
  /\ genSeries.rrule = RuleWe2
  /\ GetDay(genSeries.dtstart) = 3
  /\ genSeries.until_at = Null
  /\ genSeries.count = Null

\* the timestamps from + k * 14 days, k >= 0, at or after dtstart, in the window
EveryFortnight(from) ==
  {t \in {from + k * 14 * dayMs : k \in 0..((Horizon - from) \div (14 * dayMs))} :
     t >= genSeries.dtstart /\ genWindow[1] <= t /\ t <= genWindow[2]}

\* C5 as stated: the occurrences are exactly dtstart + k * 14 days in the window.
C5_FortnightFromDtstart ==
  C5_Case => GenStarts = EveryFortnight(genSeries.dtstart)

\* C5 as amended: the occurrences are exactly m + k * 14 days, at or after
\* dtstart and in the window, m being dtstart with seconds and milliseconds
\* zeroed, each once and in ascending order.
C5_FortnightFromMinute ==
  C5_Case =>
    /\ GenStarts = EveryFortnight(MinuteOf(genSeries.dtstart))
    /\ \A i, j \in DOMAIN generated : i < j => generated[i].start_at < generated[j].start_at

C5_Witness ==
  /\ C5_Case
  /\ Len(generated) = 2
  /\ generated[2].start_at = generated[1].start_at + 14 * dayMs

\* a weekly series, every week, on dtstart's weekday, no untilAt, no count,
\* asked for a window of one week (7 days less a millisecond) that starts at
\* or after dtstart
C6_Case ==
  /\ GenCalled
  /\ genSeries.rrule \in {RuleWeekly, RuleWe}
  /\ weekdayMap[GetDay(genSeries.dtstart) + 1] \in ByDay(GenRule, genSeries.dtstart)
  /\ genSeries.until_at = Null
  /\ genSeries.count = Null
  /\ genWindow[2] = genWindow[1] + 7 * dayMs - 1
  /\ genWindow[1] >= genSeries.dtstart

\* C6: such a window yields exactly one instance, on dtstart's weekday at
\* dtstart's hour and minute, ending durationMin minutes after its start
\* and with originalInstanceAt equal to its start.
C6_OneInstancePerWeek ==
  C6_Case =>
    /\ Len(generated) = 1
    /\ GetDay(generated[1].start_at) = GetDay(genSeries.dtstart)
    /\ generated[1].start_at % dayMs = MinuteOf(genSeries.dtstart) % dayMs
    /\ generated[1].end_at = generated[1].start_at + genSeries.duration_min * 60 * 1000
    /\ generated[1].original_instance_at = generated[1].start_at

----------------------------------------------------------------------------
(* Properties of the week query and of the exception table, under Spec *)

Queried == weekQuery # <<>>

SeriesById(id) == recurring_series[CHOOSE n \in DOMAIN recurring_series :
                                     recurring_series[n].id = id]

\* the slot an event of a series stands for
SlotOf(ev) == IF ev.originalInstanceAt # Null THEN ev.originalInstanceAt[1] ELSE ev.startAt

\* C1: no two events of a query result stand for the same slot of the same
\* series, and the slot at dtstart is never emitted as a virtual occurrence.
C1_NoSlotTwice ==
  Queried =>
    /\ \A i, j \in DOMAIN eventList :
         (i # j /\ eventList[i].recurringSeriesId # Null
                /\ eventList[i].recurringSeriesId = eventList[j].recurringSeriesId)
           => SlotOf(eventList[i]) # SlotOf(eventList[j])
    /\ \A i \in DOMAIN eventList :
         eventList[i].source = "recurring" =>
           eventList[i].originalInstanceAt[1]
             # SeriesById(eventList[i].recurringSeriesId[1]).dtstart

\* the rows of the exception table without row k
WithoutRow(rows, k) == SubSeq(rows, 1, k - 1) \o SubSeq(rows, k + 1, Len(rows))

\* C7: an occurrence with a Canceled exception is in no query result, and the
\* rest of the result is what it would be without that exception.
C7_CanceledNeverReturned ==
  Queried =>
    \A k \in DOMAIN recurring_exceptions :
      LET ex == recurring_exceptions[k]
          id == <<ex.recurring_series_id, ex.original_instance_at>>
          without == WeekEvents(appointments, recurring_series,
                                WithoutRow(recurring_exceptions, k),
                                weekQuery[1], weekQuery[2])
      IN ex.status = "Canceled" =>
           /\ \A i \in DOMAIN eventList : eventList[i].id # id
           /\ SelectSeq(eventList, LAMBDA ev : ev.id # id)
                = SelectSeq(without, LAMBDA ev : ev.id # id)

\* the generator produces slot t of the series for the window of the query
GeneratedInQuery(series, t) ==
  LET items == genWeeklyInstances(series, weekQuery[1], weekQuery[2])
  IN \E i \in DOMAIN items : items[i].original_instance_at = t

\* C8: an occurrence of the queried window with a Moved exception is returned
\* with the exception's new times, under its id seriesId:originalInstanceAt,
\* with its originalInstanceAt and with status Scheduled.
C8_MovedShowsNewTimes ==
  Queried =>
    \A k \in DOMAIN recurring_exceptions :
      LET ex == recurring_exceptions[k]
      IN (ex.status = "Moved"
          /\ GeneratedInQuery(SeriesById(ex.recurring_series_id), ex.original_instance_at))
         => \E i \in DOMAIN eventList :
              /\ eventList[i].id = <<ex.recurring_series_id, ex.original_instance_at>>
              /\ eventList[i].startAt = ex.new_start_at[1]
              /\ eventList[i].endAt = ex.new_end_at[1]
              /\ eventList[i].originalInstanceAt = Some(ex.original_instance_at)
              /\ eventList[i].status = "Scheduled"

\* the exception rows of slot t of a series
RowsOfSlot(seriesId, t) ==
  {k \in DOMAIN recurring_exceptions :
     /\ recurring_exceptions[k].recurring_series_id = seriesId
     /\ recurring_exceptions[k].original_instance_at = t}

\* C9: a query result is in ascending order of startAt, holds every stored
\* appointment that starts in the window and every generated occurrence with
\* no Canceled exception, a moved one at its moved time.
C9_SortedAndComplete ==
  Queried =>
    /\ \A i, j \in DOMAIN eventList : i < j => eventList[i].startAt <= eventList[j].startAt
    /\ \A n \in DOMAIN appointments :
         (weekQuery[1] <= appointments[n].start_at /\ appointments[n].start_at <= weekQuery[2])
           => \E i \in DOMAIN eventList :
                /\ eventList[i].id = <<appointments[n].id>>
                /\ eventList[i].startAt = appointments[n].start_at
    /\ \A n \in DOMAIN recurring_series :
         LET series == recurring_series[n]
             items == genWeeklyInstances(series, weekQuery[1], weekQuery[2])
         IN \A m \in DOMAIN items :
              LET rows == RowsOfSlot(series.id, items[m].original_instance_at)
              IN (\A k \in rows : recurring_exceptions[k].status # "Canceled")
                 => \E i \in DOMAIN eventList :
                      /\ eventList[i].id = <<series.id, items[m].original_instance_at>>
                      /\ rows = {} => eventList[i].startAt = items[m].start_at
                      /\ \A k \in rows :
                           Cardinality(rows) = 1 =>
                             eventList[i].startAt = recurring_exceptions[k].new_start_at[1]

\* a one-off appointment and an occurrence of a series at the same time, and a
\* moved occurrence sorted after them
C9_Witness ==
  /\ Queried
  /\ \E i, j, k \in DOMAIN eventList :
       /\ eventList[i].source = "single" /\ eventList[i].recurringSeriesId = Null
       /\ eventList[j].source = "recurring"
       /\ eventList[i].startAt = eventList[j].startAt
       /\ eventList[k].source = "recurring"
       /\ eventList[k].startAt # eventList[k].originalInstanceAt[1]
       /\ i < j /\ j < k
       /\ eventList[k].originalInstanceAt[1] < eventList[j].originalInstanceAt[1]

\* C10: the exception table holds at most one row for each pair
\* (recurring_series_id, original_instance_at).
C10_OneExceptionPerSlot ==
  \A i, j \in DOMAIN recurring_exceptions :
    (/\ recurring_exceptions[i].recurring_series_id = recurring_exceptions[j].recurring_series_id
     /\ recurring_exceptions[i].original_instance_at = recurring_exceptions[j].original_instance_at)
      => i = j

----------------------------------------------------------------------------
(* Properties of the edits, under Spec *)

\* the step shifts dtstart of the series of row k by d and changes nothing else
\* of the series table
ShiftsDtstart(k, d) ==
  recurring_series' = [recurring_series EXCEPT ![k].dtstart = @ + d]

\* the step shifts start_at and end_at of each appointment of the series by d
\* and changes no other appointment
ShiftsAnchor(seriesId, d) ==
  /\ DOMAIN appointments' = DOMAIN appointments
  /\ \E n \in DOMAIN appointments : appointments[n].recurring_series_id = Some(seriesId)
  /\ \A n \in DOMAIN appointments :
       appointments'[n] =
         IF appointments[n].recurring_series_id = Some(seriesId)
         THEN [appointments[n] EXCEPT !.start_at = @ + d, !.end_at = @ + d]
         ELSE appointments[n]

\* C11: a step that changes a series' dtstart by d (a 'series'-scope edit) adds
\* d to the anchor's startAt and endAt too, and changes no exception row, no
\* other series, no other appointment and no file; and a PATCH that moves the
\* start of an anchor without writing an exception changes dtstart.
C11_SeriesEditShiftsTogether ==
  [][/\ \A k \in DOMAIN recurring_series :
          LET d == recurring_series'[k].dtstart - recurring_series[k].dtstart
          IN d # 0 =>
               /\ ShiftsDtstart(k, d)
               /\ ShiftsAnchor(recurring_series[k].id, d)
               /\ UNCHANGED <<recurring_exceptions, files>>
     /\ \A n \in DOMAIN appointments :
          (/\ response' = Respond("PATCH", 200)
           /\ appointments[n].recurring_series_id # Null
           /\ appointments'[n].start_at # appointments[n].start_at
           /\ recurring_exceptions' = recurring_exceptions)
            => \E k \in DOMAIN recurring_series :
                 /\ recurring_series[k].id = appointments[n].recurring_series_id[1]
                 /\ recurring_series'[k].dtstart - recurring_series[k].dtstart
                      = appointments'[n].start_at - appointments[n].start_at
    ]_vars

\* a series edited under 'series' scope after a 'this'-scope edit of its
\* anchor: dtstart is the new start, the exception row is still there, and the
\* anchor's end has moved by the same delta
C11_Witness ==
  /\ response = Respond("PATCH", 200)
  /\ \E k \in DOMAIN recurring_series, n \in DOMAIN appointments :
       /\ appointments[n].recurring_series_id = Some(recurring_series[k].id)
       /\ recurring_series[k].dtstart = MovedStart
       /\ appointments[n].start_at = MovedStart
       /\ appointments[n].end_at = MovedEnd + (MovedStart - At(6, TenOClock))
       /\ \E i \in DOMAIN recurring_exceptions :
            /\ recurring_exceptions[i].recurring_series_id = recurring_series[k].id
            /\ recurring_exceptions[i].original_instance_at = At(6, TenOClock)

----------------------------------------------------------------------------
(* Properties of requests that overlap, under SpecConc *)

\* C12: the rows a window query has read never show a series whose anchor
\* starts at another time than the series' dtstart: the two writes of a
\* 'series'-scope edit are seen both or not at all.  (No 'this'-scope edit is
\* made here, so anchor.startAt = dtstart before and after every such edit.)
C12_SeriesEditSeenWhole ==
  (inFlight.query # Null /\ inFlight.query[1].seriesRows # Null) =>
    LET q == inFlight.query[1]
    IN \A i \in DOMAIN q.singles, k \in DOMAIN q.seriesRows[1] :
         q.singles[i].recurring_series_id = Some(q.seriesRows[1][k].id)
           => q.singles[i].start_at = q.seriesRows[1][k].dtstart

\* C19: when no creation is under way, each series is referenced by exactly one
\* appointment, and an anchor just created starts at its series' dtstart.
C19_OneAnchorPerSeries ==
  inFlight.post = Null =>
    /\ \A k \in DOMAIN recurring_series :
         Cardinality({n \in DOMAIN appointments :
                        appointments[n].recurring_series_id = Some(recurring_series[k].id)}) = 1
    /\ (response = Respond("POST", 200) /\ inFlight.patch = Null) =>
         LET a == appointments[Len(appointments)]
         IN a.recurring_series_id # Null
              => a.start_at = SeriesById(a.recurring_series_id[1]).dtstart

----------------------------------------------------------------------------
(* Properties of the reads, the statuses and the export, under SpecApi *)

\* C13: a step that answers a window query or an ICS export changes no
\* appointment, series, exception or file row, and a window query that repeats
\* the one answered just before it returns the same list in the same order.
C13_ReadsChangeNothing ==
  [][(response' # Null /\ response'[1].op \in {"WEEK", "ICS"}) =>
       /\ UNCHANGED storeVars
       /\ (weekQuery # <<>> /\ weekQuery' = weekQuery) => eventList' = eventList
    ]_vars

\* a window query answered with the anchor and a virtual occurrence while the
\* file table holds a row
C13_Witness ==
  /\ response = Respond("WEEK", 200)
  /\ Len(eventList) >= 2
  /\ files # <<>>
  /\ \E n \in DOMAIN appointments : appointments[n].status = "Completed"

Exported == response = Respond("ICS", 200)

\* the lines of the document that are a UID line for appointment id
UidLines(id) == {i \in DOMAIN icsDoc : icsDoc[i][1] = "UID" /\ icsDoc[i][2] = id}

\* the number of VEVENT blocks of the document
VEventCount == Cardinality({i \in DOMAIN icsDoc : icsDoc[i][1] = "BEGIN" /\ icsDoc[i][2] = "VEVENT"})

\* the line that ends the VEVENT block of line i
BlockEnd(i) ==
  CHOOSE j \in DOMAIN icsDoc :
    /\ j > i /\ icsDoc[j][1] = "END"
    /\ \A m \in (i + 1)..(j - 1) : icsDoc[m][1] # "END"

\* the values of the lines called name in the VEVENT block of line i
BlockValues(i, name) ==
  {icsDoc[m][2] : m \in {m \in i..BlockEnd(i) : icsDoc[m][1] = name}}

\* the document has one VEVENT for each appointment that is not Canceled and
\* no other
OneVEventEach ==
  /\ \A n \in DOMAIN appointments :
       Cardinality(UidLines(appointments[n].id))
         = IF appointments[n].status # "Canceled" THEN 1 ELSE 0
  /\ VEventCount = Cardinality({n \in DOMAIN appointments : appointments[n].status # "Canceled"})

\* C14 as stated: an export has one VEVENT for each appointment that is not
\* Canceled and none for any other, and the VEVENT of each anchor carries an
\* RRULE line equal to the series' stored rule string.
C14_RRuleOnEveryAnchor ==
  Exported =>
    /\ OneVEventEach
    /\ \A n \in DOMAIN appointments :
         (appointments[n].status # "Canceled" /\ appointments[n].recurring_series_id # Null)
           => \A i \in UidLines(appointments[n].id) :
                BlockValues(i, "RRULE")
                  = {SeriesById(appointments[n].recurring_series_id[1]).rrule}

\* C14 as amended: ... and the VEVENT of each anchor whose series' stored rule
\* string is not empty carries one RRULE line, equal to that string; the
\* VEVENT of any other appointment carries no RRULE line.
C14_RRuleOnAnchorWithRule ==
  Exported =>
    /\ OneVEventEach
    /\ \A n \in DOMAIN appointments :
         appointments[n].status # "Canceled"
           => \A i \in UidLines(appointments[n].id) :
                BlockValues(i, "RRULE")
                  = IF /\ appointments[n].recurring_series_id # Null
                       /\ SeriesById(appointments[n].recurring_series_id[1]).rrule # RuleEmpty
                    THEN {SeriesById(appointments[n].recurring_series_id[1]).rrule}
                    ELSE {}

\* an export of a one-off appointment and of an anchor with its RRULE line
C14_Witness ==
  /\ Exported
  /\ VEventCount = 2
  /\ \E i, j \in DOMAIN icsDoc :
       /\ icsDoc[i][1] = "UID" /\ BlockValues(i, "RRULE") = {RuleWe}
       /\ icsDoc[j][1] = "UID" /\ BlockValues(j, "RRULE") = {}

\* C15: an export holds no VEVENT of an appointment whose stored status is
\* Canceled, and no STATUS:CANCELLED line at all.
C15_CanceledNotExported ==
  Exported =>
    /\ \A n \in DOMAIN appointments :
         appointments[n].status = "Canceled" => UidLines(appointments[n].id) = {}
    /\ \A i \in DOMAIN icsDoc : icsDoc[i][1] # "STATUS"

\* an export made after one of two appointments was patched to Canceled
C15_Witness ==
  /\ Exported
  /\ Len(appointments) = 2
  /\ VEventCount = 1
  /\ \E n \in DOMAIN appointments : appointments[n].status = "Canceled"

\* C16: a window query whose weekStart is after its weekEnd is never answered
\* with an event list; it is answered 400.
C16_InvertedWindowRejected ==
  (response # Null /\ response[1].op = "WEEK" /\ weekQuery # <<>>
   /\ weekQuery[1] > weekQuery[2])
    => response[1].code = 400

\* C17: every stored appointment's status is one of Scheduled, Completed,
\* Canceled.
C17_StatusInEnumeratedSet ==
  \A n \in DOMAIN appointments : appointments[n].status \in APPOINTMENT

\* C18: every stored appointment ends after it starts.
C18_EndsAfterStart ==
  \A n \in DOMAIN appointments : appointments[n].end_at > appointments[n].start_at

\* the files table holds a session note related to the appointment
HasSessionNote(rows, appt) ==
  \E i \in DOMAIN rows :
    /\ rows[i].related_appointment_id = Some(appt.id)
    /\ rows[i].category = "SessionNote"
    /\ rows[i].client_id = appt.client_id

----------------------------------------------------------------------------
(* Properties of the rule parser and of the generator's result, under SpecGen *)

RecognizedKeys == {"FREQ", "BYDAY", "INTERVAL"}

\* the pieces of a rule string that have a '=' and a recognized key
RecognizedPieces(rrule) ==
  SelectSeq(rrule, LAMBDA piece : Len(piece) >= 2 /\ ToUpperCase(piece[1]) \in RecognizedKeys)

\* the values the rule string gives to FREQ
FreqValues(rrule) ==
  {RecognizedPieces(rrule)[i][2] :
     i \in {j \in DOMAIN RecognizedPieces(rrule) :
              ToUpperCase(RecognizedPieces(rrule)[j][1]) = "FREQ"}}

\* C21: for every rule string the generator returns a list of instances; the
\* list is empty when FREQ is absent or is not WEEKLY; and the list is the one
\* returned for the rule without its pieces that lack '=' or have an unknown key.
C21_AnyRuleYieldsAList ==
  GenCalled =>
    /\ DOMAIN generated = 1..Len(generated)
    /\ \A i \in DOMAIN generated :
         DOMAIN generated[i] = {"original_instance_at", "start_at", "end_at"}
    /\ "WEEKLY" \notin FreqValues(genSeries.rrule) => generated = <<>>
    /\ generated = genWeeklyInstances(
                     [genSeries EXCEPT !.rrule = RecognizedPieces(genSeries.rrule)],
                     genWindow[1], genWindow[2])

\* a rule with an unknown key, a piece without '=' and an empty piece that
\* yields two Wednesdays for a series that starts on a Thursday
C21_Witness ==
  /\ GenCalled
  /\ genSeries.rrule = RuleNoisy
  /\ GetDay(genSeries.dtstart) = 4
  /\ Len(generated) = 2
  /\ \A i \in DOMAIN generated : GetDay(generated[i].start_at) = 3

\* the times of the generator call's window that pass the weekday, interval,
\* window, dtstart and untilAt tests
Candidates ==
  {t \in {At(d, MinuteOf(genSeries.dtstart) % dayMs) :
            d \in (genWindow[1] \div dayMs)..(genWindow[2] \div dayMs)} :
     /\ IsSlot(genSeries, t)
     /\ genWindow[1] <= t /\ t <= genWindow[2]
     /\ genSeries.until_at # Null => t <= genSeries.until_at[1]}

\* C23: with count = N, a generator call returns at most N instances, in
\* ascending order, and they are the N earliest candidates of the window (all
\* of them when there are fewer than N).
C23_CountKeepsEarliest ==
  (GenCalled /\ genSeries.count # Null) =>
    /\ Len(generated) <= genSeries.count[1]
    /\ \A i, j \in DOMAIN generated : i < j => generated[i].start_at < generated[j].start_at
    /\ GenStarts = {t \in Candidates :
                      Cardinality({u \in Candidates : u < t}) < genSeries.count[1]}

\* a call whose window starts before dtstart and holds more candidates than
\* count: days are rejected before the first instance and the cap cuts the rest
C23_Witness ==
  /\ GenCalled
  /\ genSeries.count = Some(1)
  /\ genSeries.rrule = RuleMoWe
  /\ genWindow[1] < genSeries.dtstart
  /\ Cardinality(Candidates) >= 3
  /\ Len(generated) = 1
  /\ generated[1].start_at > genSeries.dtstart

\* the weekday codes the rule string lists in BYDAY; {} when it has no BYDAY
ListedDays(rrule) ==
  CASE rrule \in {RuleWe, RuleWe2, RuleNoisy, RuleNoFreq, RuleFreqNoValue} -> {"WE"}
    [] rrule = RuleMoWe -> {"MO", "WE"}
    [] OTHER -> {}

\* the two-letter code of the weekday of t
DayCode(t) ==
  CASE GetDay(t) = 0 -> "SU" [] GetDay(t) = 1 -> "MO" [] GetDay(t) = 2 -> "TU"
    [] GetDay(t) = 3 -> "WE" [] GetDay(t) = 4 -> "TH" [] GetDay(t) = 5 -> "FR"
    [] GetDay(t) = 6 -> "SA"

\* C24: every generated instance is on a weekday listed in BYDAY; for a rule
\* without BYDAY every instance is on dtstart's weekday, and the result is
\* that of the same rule with BYDAY set to dtstart's weekday code.
C24_OnListedWeekdays ==
  GenCalled =>
    IF ListedDays(genSeries.rrule) # {}
    THEN \A i \in DOMAIN generated :
           DayCode(generated[i].start_at) \in ListedDays(genSeries.rrule)
    ELSE /\ \A i \in DOMAIN generated :
              DayCode(generated[i].start_at) = DayCode(genSeries.dtstart)
         /\ generated = genWeeklyInstances(
                          [genSeries EXCEPT !.rrule =
                             Append(@, <<"BYDAY", DayCode(genSeries.dtstart)>>)],
                          genWindow[1], genWindow[2])

\* a rule without BYDAY and a dtstart on a Thursday: two Thursdays
C24_Witness ==
  /\ GenCalled
  /\ genSeries.rrule = RuleWeekly
  /\ GetDay(genSeries.dtstart) = 4
  /\ Len(generated) = 2
  /\ \A i \in DOMAIN generated : GetDay(generated[i].start_at) = 4

\* C25: every generated instance has originalInstanceAt equal to its startAt
\* and ends durationMin minutes after it starts, durationMin being the value
\* stored in the series row.
C25_EndIsStartPlusDuration ==
  GenCalled =>
    \A i \in DOMAIN generated :
      /\ generated[i].original_instance_at = generated[i].start_at
      /\ generated[i].end_at = generated[i].start_at + genSeries.duration_min * 60 * 1000

----------------------------------------------------------------------------
(* Properties of the events of a window query, under SpecApi and Spec *)

\* C22: every virtual occurrence of a query result has status Scheduled, and
\* an event reported as Completed is a stored appointment row whose status is
\* Completed.
C22_VirtualAlwaysScheduled ==
  Queried =>
    \A i \in DOMAIN eventList :
      /\ eventList[i].source = "recurring" => eventList[i].status = "Scheduled"
      /\ eventList[i].status = "Completed" =>
           /\ eventList[i].source = "single"
           /\ \E n \in DOMAIN appointments :
                /\ <<appointments[n].id>> = eventList[i].id
                /\ appointments[n].status = "Completed"

\* a query answered with a Completed anchor and a virtual occurrence of its
\* series, the series having an exception row
C22_Witness ==
  /\ Queried
  /\ recurring_exceptions # <<>>
  /\ \E i, j \in DOMAIN eventList :
       /\ eventList[i].source = "single" /\ eventList[i].status = "Completed"
       /\ eventList[j].source = "recurring" /\ eventList[j].status = "Scheduled"
       /\ eventList[j].recurringSeriesId = eventList[i].recurringSeriesId

\* C26: every recurring event of a query result has an originalInstanceAt
\* inside the window that the generator produced for that window, wherever its
\* startAt lies; an exception whose originalInstanceAt is outside the window
\* contributes no event.
C26_OverlayAddsNothing ==
  Queried =>
    /\ \A i \in DOMAIN eventList :
         eventList[i].source = "recurring" =>
           /\ weekQuery[1] <= eventList[i].originalInstanceAt[1]
           /\ eventList[i].originalInstanceAt[1] <= weekQuery[2]
           /\ GeneratedInQuery(SeriesById(eventList[i].recurringSeriesId[1]),
                               eventList[i].originalInstanceAt[1])
    /\ \A k \in DOMAIN recurring_exceptions :
         LET ex == recurring_exceptions[k]
         IN (ex.original_instance_at < weekQuery[1] \/ ex.original_instance_at > weekQuery[2])
              => \A i \in DOMAIN eventList :
                   eventList[i].id # <<ex.recurring_series_id, ex.original_instance_at>>

\* a query answered with an occurrence moved to a time after the window's end
C26_Witness ==
  /\ Queried
  /\ \E i \in DOMAIN eventList :
       /\ eventList[i].source = "recurring"
       /\ eventList[i].startAt > weekQuery[2]
       /\ eventList[i].originalInstanceAt[1] <= weekQuery[2]

\* the place of a series in the store
SeriesIndex(id) == CHOOSE n \in DOMAIN recurring_series : recurring_series[n].id = id

\* C27: among events of equal startAt of a query result, stored appointments
\* come before recurring expansions, and expansions of different series are
\* in the order in which their series were read, which is their store order.
C27_TiesInEncounterOrder ==
  Queried =>
    \A i, j \in DOMAIN eventList :
      (i < j /\ eventList[i].startAt = eventList[j].startAt) =>
        /\ eventList[i].source = "recurring" => eventList[j].source = "recurring"
        /\ (eventList[i].source = "recurring" /\ eventList[j].source = "recurring")
             => SeriesIndex(eventList[i].recurringSeriesId[1])
                  <= SeriesIndex(eventList[j].recurringSeriesId[1])

\* two anchors and the occurrences of their two series, all at the same time
C27_Witness ==
  /\ Queried
  /\ \E i, j, k, l \in DOMAIN eventList :
       /\ i < j /\ j < k /\ k < l
       /\ eventList[i].source = "single" /\ eventList[j].source = "single"
       /\ eventList[k].source = "recurring" /\ eventList[l].source = "recurring"
       /\ eventList[k].recurringSeriesId # eventList[l].recurringSeriesId
       /\ \A m \in {j, k, l} : eventList[m].startAt = eventList[i].startAt

----------------------------------------------------------------------------
(* Properties of the series prefilter, under SpecUntil *)

Max(a, b) == IF a >= b THEN a ELSE b
Min(a, b) == IF a <= b THEN a ELSE b

\* some time is both in [dtstart, untilAt or +infinity] and in [weekStart, weekEnd]
Intersects(series, weekStart, weekEnd) ==
  IF series.until_at = Null
  THEN Max(series.dtstart, weekStart) <= weekEnd
  ELSE Max(series.dtstart, weekStart) <= Min(series.until_at[1], weekEnd)

\* C28: the result of a window query is the one obtained by expanding exactly
\* the series whose eligibility interval intersects the window, and every
\* series for which the generator returns an instance in the window is one
\* of them.
C28_ExpandsIntersectingSeries ==
  Queried =>
    /\ eventList =
         MergeEvents(Singles(appointments, weekQuery[1], weekQuery[2]),
                     SelectSeq(recurring_series,
                               LAMBDA r : Intersects(r, weekQuery[1], weekQuery[2])),
                     recurring_exceptions, weekQuery[1], weekQuery[2])
    /\ \A n \in DOMAIN recurring_series :
         genWeeklyInstances(recurring_series[n], weekQuery[1], weekQuery[2]) # <<>>
           => Intersects(recurring_series[n], weekQuery[1], weekQuery[2])

\* a query of the week of untilAt with two series, one moved past the window
\* and one that ends in it: the occurrence at untilAt is returned
C28_Witness ==
  /\ Queried
  /\ weekQuery = <<At(11, 0), At(18, 0) - 1>>
  /\ Len(recurring_series) = 2
  /\ \E n, m \in DOMAIN recurring_series :
       /\ recurring_series[n].until_at = Some(At(13, TenOClock))
       /\ recurring_series[n].dtstart = At(6, TenOClock)
       /\ recurring_series[m].dtstart = MovedStart
       /\ \E i \in DOMAIN eventList :
            eventList[i].id = <<recurring_series[n].id, At(13, TenOClock)>>
       /\ \A i \in DOMAIN eventList :
            eventList[i].source = "recurring"
              => eventList[i].recurringSeriesId # Some(recurring_series[m].id)

----------------------------------------------------------------------------
(* Properties of the session notes, under SpecNotes and SpecApi *)

\* the rows of the files table related to the appointment
NotesOf(id) == {i \in DOMAIN files : files[i].related_appointment_id = Some(id)}

\* C29: for every appointment the files table holds at most one row related
\* to it.
C29_OneNotePerAppointment ==
  \A n \in DOMAIN appointments : Cardinality(NotesOf(appointments[n].id)) <= 1

\* C30: a step that adds a session-note row to the files table leaves the
\* appointment the row is related to with stored status Completed.
C30_NoteOnlyWhenCompleted ==
  [][\A i \in DOMAIN files' :
       i \notin DOMAIN files =>
         \E n \in DOMAIN appointments' :
           /\ Some(appointments'[n].id) = files'[i].related_appointment_id
           /\ appointments'[n].status = "Completed"
    ]_vars

====
